---- MODULE Spec2Model ----
(***************************************************************************)
(* HiPS mosaic tooling (jrrk2/hips): the HEALPix grid builder of           *)
(* ProperHipsClient and the tile download chain of EnhancedMosaicCreator.  *)
(*                                                                         *)
(* Three specifications share the module:                                  *)
(*   Spec          one call of ProperHipsClient::createProperNxMGrid,      *)
(*                 executed step by step (steps 1..4 of the function)      *)
(*   SpecEnhanced  the event loop of EnhancedMosaicCreator: button clicks, *)
(*                 tab changes, coordinate edits, reply completions and    *)
(*                 single-shot timers                                      *)
(*   SpecCentering calculateTargetPixelPosition followed by                *)
(*                 cropMosaicToCenter on tile lists and targets            *)
(* Lists are 0-based as in the C++ code: a QList of n elements is a        *)
(* function on 0..n-1.                                                     *)
(***************************************************************************)
EXTENDS Integers, Sequences, FiniteSets, Bags, TLC

VARIABLES
    \* ---- the HEALPix neighbour query the build links against
    healpix,          \* [build, throws, missing]
    \* ---- one call of createProperNxMGrid
    centerPixel, order, gridWidth, gridHeight,   \* the arguments
    throwAt,          \* the step of the try block that raises a std::exception
    pc,               \* position inside createProperNxMGrid
    grid,             \* local: the grid being assembled
    reference3x3,     \* local: the step-1 reference
    centerValid,      \* local: outcome of step 4
    threw,            \* the catch handler ran
    path,             \* which return statement produced the result
    result,           \* the returned grid
    \* ---- EnhancedMosaicCreator
    m_usingCustomCoordinates,
    m_currentObject,        \* the selected catalog object (name "" before the first selection)
    m_customTarget,         \* SkyPosition parsed from the inputs (name "" before the first parse)
    m_actualTarget,
    raText, decText,        \* contents of m_raInput / m_decInput
    createButtonEnabled,    \* m_createButton->isEnabled()
    createCustomButtonEnabled,
    m_tiles,                \* QList<SimpleTile>
    m_currentTileIndex,
    replies,                \* bag of the QNetworkReply objects in flight
    processTimers,          \* pending singleShot(.., processNextTile) timers
    startupTimer,           \* the singleShot(0, onObjectSelectionChanged) of setupUI is pending
    settled,                \* indices of m_tiles loaded from the cache or whose reply finished
    assembling,             \* the handler that just ran entered assembleFinalMosaicCentered
    creates,                \* create requests accepted so far
    network,                \* what the tile server answers in this run
    disk,                   \* names of the tile files in m_outputDir
    m_fullMosaic,           \* the last mosaic assembled (a null image before the first)
    \* ---- one run of calculateTargetPixelPosition and cropMosaicToCenter
    skyTiles,         \* m_tiles as the two functions read it: gridX, gridY, skyCoordinates
    skyTarget,        \* m_actualTarget, in arc seconds
    rawMosaic,        \* [width, height] of the raw mosaic
    containingTile,   \* index of the tile calculateTargetPixelPosition chose (-1: nullptr)
    targetPixel,      \* the QPoint handed to cropMosaicToCenter
    cropRect,         \* the QRect cut out of the raw mosaic
    step,             \* "start", "located", "cropped"; "probe", "probed" for a bare crop
    \* ---- ProperHipsClient: the url builders and the survey test
    urlCall,                \* one call of buildTileUrl: arguments, pixel and result
    program,                \* which main() drives the client
    mainPc,                 \* "main" before app.exec(), "exec" inside it, "exited"
    m_currentSurveyIndex,
    m_currentPositionIndex,
    m_results,              \* QList<TileResult>, 1-based here
    testReplies,            \* bag of the test requests in flight
    testTimers,             \* pending singleShot(200, startNextTest) timers
    requestsIssued,         \* calls of QNetworkAccessManager::get so far
    completeEmitted,        \* emissions of testingComplete so far
    \* ---- MessierMosaicCreator
    m_gridWidth, m_gridHeight,
    messierTiles,           \* its m_tiles
    messierTileIndex,       \* its m_currentTileIndex
    messierReplies,         \* bag of its QNetworkReply objects in flight
    messierTimers,          \* its pending singleShot(.., processNextTile) timers
    messierButtonEnabled,   \* its m_createButton->isEnabled()
    messierDisk,            \* names of the tile files in messier_mosaics
    messierMosaic,          \* its m_fullMosaic
    messierAssembling,      \* the handler that just ran entered assembleFinalMosaic
    messierCreates          \* create clicks accepted so far

enhVars == <<m_usingCustomCoordinates, m_currentObject, m_customTarget, m_actualTarget,
             raText, decText, createButtonEnabled, createCustomButtonEnabled,
             m_tiles, m_currentTileIndex, replies, processTimers, startupTimer,
             settled, assembling, creates, network, disk,
             m_fullMosaic>>

gridVars == <<centerPixel, order, gridWidth, gridHeight, throwAt, pc, grid,
              reference3x3, centerValid, threw, path, result>>

centerVars == <<skyTiles, skyTarget, rawMosaic, containingTile, targetPixel, cropRect,
                step>>

clientVars == <<urlCall, program, mainPc, m_currentSurveyIndex, m_currentPositionIndex,
                m_results, testReplies, testTimers, requestsIssued, completeEmitted>>

messierVars == <<m_gridWidth, m_gridHeight, messierTiles, messierTileIndex, messierReplies,
                 messierTimers, messierButtonEnabled, messierDisk, messierMosaic,
                 messierAssembling, messierCreates>>

vars == <<healpix, gridVars, enhVars, centerVars, clientVars, messierVars>>

-----------------------------------------------------------------------------
(* Bounds of the model *)

MaxWidth == 5
MaxHeight == 4
MaxMissing == 2
MaxCreates == 2
MaxTiles == 16

\* orders tried: nside = 1, 64, 256 (spacing 1, 2, 8); 8 is the order every caller uses
Orders == {0, 6, 8}

-----------------------------------------------------------------------------
(* Arithmetic helpers *)

Max(a, b) == IF a >= b THEN a ELSE b
Min(a, b) == IF a <= b THEN a ELSE b

Size(l) == Cardinality(DOMAIN l)

NSide(o) == 2 ^ o

\* 12 * nside * nside : the number of pixels at an order
NPix(o) == 12 * NSide(o) * NSide(o)

\* mutant: the spacing without its floor of 1
PixelSpacingNoFloor(o) == NSide(o) \div 32

\* std::max(1LL, nside / 32)
PixelSpacing(o) == Max(1, NSide(o) \div 32)

\* mutant: the estimate without the clamp into [0, maxPixel]
EstimatedPixelUnclamped(center, o, dx, dy) ==
    center + dy * PixelSpacing(o) * 8 + dx * PixelSpacing(o)

\* centerPixel + dy * pixelSpacing * 8 + dx * pixelSpacing, then
\* std::max(0LL, std::min(estimatedPixel, maxPixel))
EstimatedPixel(center, o, dx, dy) ==
    LET maxPixel == NPix(o) - 1
        estimated == center + dy * PixelSpacing(o) * 8 + dx * PixelSpacing(o)
    IN  Max(0, Min(estimated, maxPixel))

-----------------------------------------------------------------------------
(* The neighbour query: Healpix_Base::neighbors                            *)

\* The fallback Healpix_Base of ProperHipsClient.h, compiled when
\* HEALPIX_AVAILABLE is not defined: slot i is pixel + i - 4, or -1 when negative.
\* (static_cast<int> does not truncate for the orders modelled: 12*4^8 < 2^31.)
FallbackNeighbors(pixel) ==
    [i \in 0..7 |-> IF pixel + i - 4 < 0 THEN -1 ELSE pixel + i - 4]

\* The healpix_cxx library is not part of the repository: its answer for a
\* pixel is some in-range pixel per slot, and -1 in the slots that have no
\* neighbour (healpix.missing).
LibraryNeighbors(pixel, o) ==
    [i \in 0..7 |-> IF i \in healpix.missing THEN -1
                    ELSE (pixel + i + 1) % NPix(o)]

HealpixNeighbors(pixel, o) ==
    IF healpix.build = "fallback" THEN FallbackNeighbors(pixel)
    ELSE LibraryNeighbors(pixel, o)

HealpixChoices ==
    {[build |-> "fallback", throws |-> FALSE, missing |-> {}]}
    \cup {[build |-> "library", throws |-> TRUE, missing |-> {}]}
    \cup {[build |-> "library", throws |-> FALSE, missing |-> m] :
            m \in {s \in SUBSET (0..7) : Cardinality(s) <= MaxMissing}}

\* mutant: the counter-clockwise order from SW that the comment above the
\* function describes
directionsFromSouthWest == <<"SW", "W", "NW", "N", "NE", "E", "SE", "S">>

\* QStringList directions
directions == <<"S", "SE", "E", "NE", "N", "NW", "W", "SW">>

\* QMap<QString,long long>: one entry per slot whose value is >= 0; the map
\* stays empty when the query throws
getDirectionalNeighbors(pixel, o) ==
    IF healpix.throws THEN [d \in {} |-> 0]
    ELSE LET neighborArray == HealpixNeighbors(pixel, o)
             valid == {i \in 0..7 : neighborArray[i] >= 0}
         IN  [d \in {directions[i + 1] : i \in valid} |->
                 neighborArray[CHOOSE i \in valid : directions[i + 1] = d]]

\* QMap::value(key, defaultValue)
value(map, key, defaultValue) ==
    IF key \in DOMAIN map THEN map[key] ELSE defaultValue

List3(a, b, c) == [i \in 0..2 |-> IF i = 0 THEN a ELSE IF i = 1 THEN b ELSE c]

\* mutant: the rows laid out north first (NW N NE on row 0)
createProper3x3GridNorthFirst(center, o) ==
    LET neighbors == getDirectionalNeighbors(center, o)
    IN  List3(
          List3(value(neighbors, "NW", -1), value(neighbors, "N", -1), value(neighbors, "NE", -1)),
          List3(value(neighbors, "W", -1), center, value(neighbors, "E", -1)),
          List3(value(neighbors, "SW", -1), value(neighbors, "S", -1), value(neighbors, "SE", -1)))

createProper3x3Grid(center, o) ==
    LET neighbors == getDirectionalNeighbors(center, o)
    IN  List3(
          List3(value(neighbors, "SW", -1), value(neighbors, "S", -1), value(neighbors, "SE", -1)),
          List3(value(neighbors, "W", -1), center, value(neighbors, "E", -1)),
          List3(value(neighbors, "NW", -1), value(neighbors, "N", -1), value(neighbors, "NE", -1)))

-----------------------------------------------------------------------------
(* createProperNxMGrid, step by step *)

\* mutant: || in place of &&
Is3x3RequestEither(w, h) == w = 3 \/ h = 3

\* mutant: the shortcut for 3x3 requests removed
Is3x3RequestNever(w, h) == w = 3 /\ h = 3 /\ w # h

\* if (gridWidth == 3 && gridHeight == 3)
Is3x3Request(w, h) == w = 3 /\ h = 3

\* grid.resize(gridHeight); grid[y].resize(gridWidth): value-initialised cells
AllocateGrid(w, h) == [y \in 0..(h - 1) |-> [x \in 0..(w - 1) |-> 0]]

InCenterBlock(x, y, w, h) ==
    LET centerX == w \div 2
        centerY == h \div 2
    IN  x >= centerX - 1 /\ x <= centerX + 1 /\ y >= centerY - 1 /\ y <= centerY + 1

\* Step 2: place the 3x3 reference at the centre of the larger grid
PlaceReference(g, ref, w, h) ==
    LET centerX == w \div 2
        centerY == h \div 2
    IN  [y \in 0..(h - 1) |-> [x \in 0..(w - 1) |->
            IF InCenterBlock(x, y, w, h)
            THEN ref[y - (centerY - 1)][x - (centerX - 1)]
            ELSE g[y][x]]]

\* mutant: the estimate written into every position, the embedded block included
FillEstimatesEverywhere(g, center, o, w, h) ==
    LET centerX == w \div 2
        centerY == h \div 2
    IN  [y \in 0..(h - 1) |-> [x \in 0..(w - 1) |->
            EstimatedPixel(center, o, x - centerX, y - centerY)]]

\* Step 3: fill the remaining positions with the linear estimate
FillEstimates(g, center, o, w, h) ==
    LET centerX == w \div 2
        centerY == h \div 2
    IN  [y \in 0..(h - 1) |-> [x \in 0..(w - 1) |->
            IF InCenterBlock(x, y, w, h)
            THEN g[y][x]
            ELSE EstimatedPixel(center, o, x - centerX, y - centerY)]]

\* Step 4: every in-bounds cell of the centre block equals the reference
CenterMatchesReference(g, ref, w, h) ==
    LET centerX == w \div 2
        centerY == h \div 2
    IN  \A y \in 0..2 : \A x \in 0..2 :
            LET targetY == centerY - 1 + y
                targetX == centerX - 1 + x
            IN  (targetX >= 0 /\ targetX < w /\ targetY >= 0 /\ targetY < h)
                    => g[targetY][targetX] = ref[y][x]

\* mutant: offsets taken from the grid origin instead of the grid centre
createFallbackGridFromOrigin(center, o, w, h) ==
    [y \in 0..(h - 1) |-> [x \in 0..(w - 1) |-> EstimatedPixel(center, o, x, y)]]

\* mutant: the fallback keeps the exact 3x3 block and estimates only the rest
createFallbackGridKeepBlock(center, o, w, h) ==
    FillEstimates(PlaceReference(AllocateGrid(w, h), createProper3x3Grid(center, o), w, h),
                  center, o, w, h)

createFallbackGrid(center, o, w, h) ==
    LET centerX == w \div 2
        centerY == h \div 2
    IN  [y \in 0..(h - 1) |-> [x \in 0..(w - 1) |->
            EstimatedPixel(center, o, x - centerX, y - centerY)]]

EmptyGrid == [y \in {} |-> 0]

\* catch (const std::exception&): return createFallbackGrid(...)
CatchAndFallback ==
    /\ threw' = TRUE
    /\ path' = "fallback"
    /\ result' = createFallbackGrid(centerPixel, order, gridWidth, gridHeight)
    /\ pc' = "return"

InitHealpix == healpix \in HealpixChoices

InitGrid ==
    /\ order \in Orders
    /\ centerPixel \in {0, NPix(order) \div 2, NPix(order) - 1}
    /\ gridWidth \in 1..MaxWidth
    /\ gridHeight \in 1..MaxHeight
    /\ throwAt \in {"none", "step1", "step2", "step3", "step4"}
    /\ pc = "call"
    /\ grid = EmptyGrid
    /\ reference3x3 = EmptyGrid
    /\ centerValid = TRUE
    /\ threw = FALSE
    /\ path = "none"
    /\ result = EmptyGrid

\* entry: the 3x3 shortcut, or the allocation of the larger grid
Call ==
    /\ pc = "call"
    /\ IF Is3x3Request(gridWidth, gridHeight)
       THEN /\ result' = createProper3x3Grid(centerPixel, order)
            /\ path' = "3x3"
            /\ pc' = "return"
            /\ UNCHANGED grid
       ELSE /\ grid' = AllocateGrid(gridWidth, gridHeight)
            /\ pc' = "step1"
            /\ UNCHANGED <<result, path>>
    /\ UNCHANGED <<enhVars, centerVars, clientVars, messierVars>>
    /\ UNCHANGED <<healpix, centerPixel, order, gridWidth, gridHeight, throwAt,
                   reference3x3, centerValid, threw>>

Step1Reference ==
    /\ pc = "step1"
    /\ IF throwAt = "step1"
       THEN CatchAndFallback /\ UNCHANGED reference3x3
       ELSE /\ reference3x3' = createProper3x3Grid(centerPixel, order)
            /\ pc' = "step2"
            /\ UNCHANGED <<threw, path, result>>
    /\ UNCHANGED <<enhVars, centerVars, clientVars, messierVars>>
    /\ UNCHANGED <<healpix, centerPixel, order, gridWidth, gridHeight, throwAt,
                   grid, centerValid>>

Step2Embed ==
    /\ pc = "step2"
    /\ IF throwAt = "step2"
       THEN CatchAndFallback /\ UNCHANGED grid
       ELSE /\ grid' = PlaceReference(grid, reference3x3, gridWidth, gridHeight)
            /\ pc' = "step3"
            /\ UNCHANGED <<threw, path, result>>
    /\ UNCHANGED <<enhVars, centerVars, clientVars, messierVars>>
    /\ UNCHANGED <<healpix, centerPixel, order, gridWidth, gridHeight, throwAt,
                   reference3x3, centerValid>>

Step3Estimate ==
    /\ pc = "step3"
    /\ IF throwAt = "step3"
       THEN CatchAndFallback /\ UNCHANGED grid
       ELSE /\ grid' = FillEstimates(grid, centerPixel, order, gridWidth, gridHeight)
            /\ pc' = "step4"
            /\ UNCHANGED <<threw, path, result>>
    /\ UNCHANGED <<enhVars, centerVars, clientVars, messierVars>>
    /\ UNCHANGED <<healpix, centerPixel, order, gridWidth, gridHeight, throwAt,
                   reference3x3, centerValid>>

\* Step 4 and the returns that follow it
Step4Validate ==
    /\ pc = "step4"
    /\ IF throwAt = "step4"
       THEN CatchAndFallback /\ UNCHANGED centerValid
       ELSE /\ centerValid' = CenterMatchesReference(grid, reference3x3, gridWidth, gridHeight)
            /\ threw' = threw
            /\ pc' = "return"
            /\ IF centerValid'
               THEN path' = "expanded" /\ result' = grid
               ELSE /\ path' = "fallback"
                    /\ result' = createFallbackGrid(centerPixel, order, gridWidth, gridHeight)
    /\ UNCHANGED <<enhVars, centerVars, clientVars, messierVars>>
    /\ UNCHANGED <<healpix, centerPixel, order, gridWidth, gridHeight, throwAt,
                   grid, reference3x3>>

-----------------------------------------------------------------------------
(* EnhancedMosaicCreator: data *)

NoPosition == [ra_deg |-> 0, dec_deg |-> 0, name |-> ""]

\* objects[0] of MessierCatalog, the entry the combo box shows from the start
\* (5.575556 h, 22.013333 deg, rounded to whole degrees)
Catalog == <<[ra_deg |-> 83, dec_deg |-> 22, name |-> "M1"]>>

\* texts the user can put into the coordinate inputs
RaTexts == {"", "202", "400"}
DecTexts == {"", "47"}

\* QString::toDouble for the texts above
toDouble(text) ==
    IF text = "202" THEN 202 ELSE IF text = "400" THEN 400
    ELSE IF text = "47" THEN 47 ELSE 0

\* SimpleCoordinateParser::parseRA, decimal branch
parseRA(text) ==
    LET degrees == toDouble(text)
    IN  IF degrees <= 24 THEN degrees * 15 ELSE degrees

\* SimpleCoordinateParser::parseDec, decimal branch (no sign in the texts used)
parseDec(text) == toDouble(text)

parseCoordinates(ra, dec, name) ==
    [ra_deg |-> parseRA(ra), dec_deg |-> parseDec(dec), name |-> name]

\* Healpix_Base::ang2pix of the fallback definition: (phi / 2pi) * npix % npix;
\* the library's ang2pix is external and is given the same in-range answer
ang2pix(position, o) == ((position.ra_deg * NPix(o)) \div 360) % NPix(o)

\* -1 when the indexing throws
calculateHealPixel(position, o) ==
    IF healpix.throws THEN -1 ELSE ang2pix(position, o)

\* C++ integer division truncates toward zero
TruncDiv(a, b) == IF a >= 0 THEN a \div b ELSE -((-a) \div b)

\* int dir = (pixel / 10000) * 10000
DirBucket(pixel) == TruncDiv(pixel, 10000) * 10000

\* "http://alasky.u-strasbg.fr/DSS/DSSColor/Norder%1/Dir%2/Npix%3.jpg" as
\* <<order, dir, pixel>>; the empty QString is <<>>
TileUrl(o, pixel) == <<o, DirBucket(pixel), pixel>>

\* "%1/%2_tile_%3_%4_pixel%5.jpg" without the directory: the object name
\* (toLower leaves the names used here distinct), x, y and the pixel id
TileFilename(name, x, y, pixel) == <<name, x, y, pixel>>

\* createTileGrid: nine SimpleTile records appended row by row
createTileGrid(position) ==
    LET o == 8
        center == calculateHealPixel(position, o)
        g == createProper3x3Grid(center, o)
    IN  [i \in 0..8 |->
            LET x == i % 3
                y == i \div 3
            IN  [gridX |-> x, gridY |-> y, healpixPixel |-> g[y][x],
                 filename |-> TileFilename(position.name, x, y, g[y][x]),
                 url |-> TileUrl(o, g[y][x]), downloaded |-> FALSE, image |-> FALSE]]

\* checkExistingTile: the file exists as a JPEG that loads
checkExistingTile(tile) == tile.filename \in disk

\* checkExistingTile on a cache hit: image loaded, downloaded = true
LoadFromCache(tiles, i) ==
    [tiles EXCEPT ![i].image = TRUE, ![i].downloaded = TRUE]

\* QNetworkAccessManager::get + setProperty("tileIndex", ..)
Request(tiles, i) == [tileIndex |-> i, url |-> tiles[i].url]

InFlight == BagCardinality(replies)

\* The tile server is outside the repository. A run fixes what it serves:
\*   "up"      every tile with a pixel id >= 0 (Npix-1 does not exist)
\*   "down"    nothing: every request ends in an error or the 15 s abort
\*   "partial" odd pixel ids as images, multiples of 4 as data that does
\*             not decode, the rest not at all
Networks == {"up", "down", "partial"}

\* how a reply finishes: "ok" a decodable image, "badimage" data that does
\* not decode, "error" a network error or the abort of the 15 s timer
ReplyOutcome(reply) ==
    LET pixel == reply.url[3]
    IN  IF network = "down" \/ pixel < 0 THEN "error"
        ELSE IF network = "up" THEN "ok"
        ELSE IF pixel % 2 = 1 THEN "ok"
        ELSE IF pixel % 4 = 0 THEN "badimage" ELSE "error"

-----------------------------------------------------------------------------
(* EnhancedMosaicCreator: handlers *)

\* assembleFinalMosaicCentered, as far as the controls go: both buttons are
\* enabled again on either exit
AssembleButtons ==
    /\ createButtonEnabled' = TRUE
    /\ createCustomButtonEnabled' = TRUE

\* tiles that count for the mosaic: downloaded with an image that is not null
SuccessfulTiles(tiles) ==
    {i \in DOMAIN tiles : tiles[i].downloaded /\ tiles[i].image}

\* a QImage that is null
NullImage == [rawWidth |-> 0, rawHeight |-> 0, drawn |-> {}, tilesUsed |-> 0,
              target |-> NoPosition]

tileSize == 512

DrawPositionTransposed(tile) == <<tile.gridY * tileSize, tile.gridX * tileSize>>

\* where the painter puts the tile: (gridX * tileSize, gridY * tileSize)
DrawPosition(tile) == <<tile.gridX * tileSize, tile.gridY * tileSize>>

\* the raw mosaic of a w x h tile grid: black, with the successful tiles drawn;
\* the mosaic kept in m_fullMosaic is cut out of it around target by
\* calculateTargetPixelPosition and cropMosaicToCenter (below)
AssembleRaw(tiles, w, h, target) ==
    [rawWidth |-> w * tileSize, rawHeight |-> h * tileSize,
     drawn |-> {DrawPosition(tiles[i]) : i \in SuccessfulTiles(tiles)},
     tilesUsed |-> Cardinality(SuccessfulTiles(tiles)),
     target |-> target]

\* assembleFinalMosaicCentered: without a successful tile it only reports the
\* failure and returns; otherwise it stores the 3x3 mosaic
assembleFinalMosaicCentered(tiles, target) ==
    IF Cardinality(SuccessfulTiles(tiles)) = 0
    THEN m_fullMosaic
    ELSE AssembleRaw(tiles, 3, 3, target)

\* processNextTile run on the values (tiles, idx) the handler holds at that
\* point; createBtn and customBtn are the button states the caller leaves
ProcessNextTileBody(tiles, idx, target, pending, doneSet, createBtn, customBtn) ==
    IF idx >= Size(tiles)
    THEN /\ assembling' = TRUE
         /\ AssembleButtons
         /\ m_fullMosaic' = assembleFinalMosaicCentered(tiles, target)
         /\ m_tiles' = tiles
         /\ m_currentTileIndex' = idx
         /\ processTimers' = pending
         /\ settled' = doneSet
         /\ UNCHANGED replies
    ELSE IF checkExistingTile(tiles[idx])
    THEN /\ assembling' = FALSE
         /\ UNCHANGED m_fullMosaic
         /\ m_tiles' = LoadFromCache(tiles, idx)
         /\ m_currentTileIndex' = idx + 1
         /\ processTimers' = pending + 1
         /\ settled' = doneSet \cup {idx}
         /\ createButtonEnabled' = createBtn
         /\ createCustomButtonEnabled' = customBtn
         /\ UNCHANGED replies
    ELSE /\ assembling' = FALSE
         /\ UNCHANGED m_fullMosaic
         /\ m_tiles' = tiles
         /\ m_currentTileIndex' = idx
         /\ processTimers' = pending
         /\ settled' = doneSet
         /\ replies' = replies (+) SetToBag({Request(tiles, idx)})
         /\ createButtonEnabled' = createBtn
         /\ createCustomButtonEnabled' = customBtn

\* the single-shot timer of a previous step fires
processNextTile ==
    /\ UNCHANGED <<healpix, gridVars, centerVars, clientVars, messierVars>>
    /\ processTimers > 0
    /\ ProcessNextTileBody(m_tiles, m_currentTileIndex, m_actualTarget,
                           processTimers - 1, settled,
                           createButtonEnabled, createCustomButtonEnabled)
    /\ UNCHANGED <<m_usingCustomCoordinates, m_currentObject, m_customTarget,
                   m_actualTarget, raText, decText, startupTimer, creates, network, disk>>

\* onObjectSelectionChanged with the combo box at entry index
SelectObject(index) ==
    IF m_usingCustomCoordinates THEN m_currentObject' = m_currentObject
    ELSE m_currentObject' = Catalog[index + 1]

\* the singleShot(0, onObjectSelectionChanged) queued by setupUI; it fires on
\* the first pass of the event loop, before the window takes any input
onObjectSelectionChanged ==
    /\ UNCHANGED <<healpix, gridVars, centerVars, clientVars, messierVars>>
    /\ startupTimer
    /\ startupTimer' = FALSE
    /\ SelectObject(0)
    /\ assembling' = FALSE
    /\ UNCHANGED <<m_usingCustomCoordinates, m_customTarget, m_actualTarget, raText,
                   decText, createButtonEnabled, createCustomButtonEnabled, m_tiles,
                   m_currentTileIndex, replies, processTimers, settled, creates, network, disk, m_fullMosaic>>

\* a session is bounded by the mosaics asked for: after the last create click
\* the user only waits for the mosaic
UserActive == creates < MaxCreates

\* updateCoordinatePreview: the range check disables the button
InRange(target) ==
    ~(target.ra_deg < 0 \/ target.ra_deg >= 360 \/ target.dec_deg < -90 \/ target.dec_deg > 90)

\* onCoordinatesChanged on the texts (ra, dec) while custom says whether the
\* custom tab is the current one
CoordinatesChanged(custom, ra, dec) ==
    IF ~custom
    THEN UNCHANGED <<m_customTarget, createCustomButtonEnabled>>
    ELSE IF ra = "" \/ dec = ""
    THEN /\ createCustomButtonEnabled' = FALSE
         /\ UNCHANGED m_customTarget
    ELSE /\ m_customTarget' = parseCoordinates(ra, dec, "Custom Target")
         \* updateCoordinatePreview() may setEnabled(false); setEnabled(true) follows it
         /\ createCustomButtonEnabled' = TRUE

\* the user edits m_raInput (textChanged)
EditRa ==
    /\ UNCHANGED <<healpix, gridVars, centerVars, clientVars, messierVars>>
    /\ ~startupTimer
    /\ UserActive
    /\ m_usingCustomCoordinates
    /\ \E text \in RaTexts \ {raText} :
          /\ raText' = text
          /\ CoordinatesChanged(m_usingCustomCoordinates, text, decText)
    /\ assembling' = FALSE
    /\ UNCHANGED <<m_usingCustomCoordinates, m_currentObject, m_actualTarget, decText,
                   createButtonEnabled, m_tiles, m_currentTileIndex, replies,
                   processTimers, startupTimer, settled, creates, network, disk, m_fullMosaic>>

\* the user edits m_decInput (textChanged)
EditDec ==
    /\ UNCHANGED <<healpix, gridVars, centerVars, clientVars, messierVars>>
    /\ ~startupTimer
    /\ UserActive
    /\ m_usingCustomCoordinates
    /\ \E text \in DecTexts \ {decText} :
          /\ decText' = text
          /\ CoordinatesChanged(m_usingCustomCoordinates, raText, text)
    /\ assembling' = FALSE
    /\ UNCHANGED <<m_usingCustomCoordinates, m_currentObject, m_actualTarget, raText,
                   createButtonEnabled, m_tiles, m_currentTileIndex, replies,
                   processTimers, startupTimer, settled, creates, network, disk, m_fullMosaic>>

\* the user switches tabs: index 1 is the custom tab
onTabChanged ==
    /\ UNCHANGED <<healpix, gridVars, centerVars, clientVars, messierVars>>
    /\ ~startupTimer
    /\ UserActive
    /\ \E index \in {0, 1} :
          /\ (index = 1) # m_usingCustomCoordinates
          /\ m_usingCustomCoordinates' = (index = 1)
          /\ IF index = 1
             THEN /\ CoordinatesChanged(TRUE, raText, decText)
                  /\ UNCHANGED m_currentObject
             ELSE \* onObjectSelectionChanged with the combo's current entry
                  /\ m_currentObject' = Catalog[1]
                  /\ UNCHANGED <<m_customTarget, createCustomButtonEnabled>>
    /\ assembling' = FALSE
    /\ UNCHANGED <<m_actualTarget, raText, decText, createButtonEnabled, m_tiles,
                   m_currentTileIndex, replies, processTimers, startupTimer, settled,
                   creates, network, disk, m_fullMosaic>>

\* createMosaic / createCustomMosaic: m_actualTarget, createTileGrid,
\* m_currentTileIndex = 0, processNextTile()
StartMosaic(position, createBtn, customBtn) ==
    /\ m_actualTarget' = position
    /\ creates' = creates + 1
    /\ ProcessNextTileBody(createTileGrid(position), 0, position, processTimers, {},
                           createBtn, customBtn)

\* click on m_createButton (on the Messier tab, enabled)
onCreateMosaicClicked ==
    /\ UNCHANGED <<healpix, gridVars, centerVars, clientVars, messierVars>>
    /\ ~startupTimer
    /\ UserActive
    /\ ~m_usingCustomCoordinates
    /\ createButtonEnabled
    /\ m_currentObject.name # ""
    /\ StartMosaic(m_currentObject, FALSE, createCustomButtonEnabled)
    /\ UNCHANGED <<m_usingCustomCoordinates, m_currentObject, m_customTarget, raText,
                   decText, startupTimer, network, disk>>

\* click on m_createCustomButton (on the custom tab, enabled)
onCreateCustomMosaicClicked ==
    /\ UNCHANGED <<healpix, gridVars, centerVars, clientVars, messierVars>>
    /\ ~startupTimer
    /\ UserActive
    /\ m_usingCustomCoordinates
    /\ createCustomButtonEnabled
    /\ m_customTarget.name # ""
    /\ StartMosaic(m_customTarget, createButtonEnabled, FALSE)
    /\ UNCHANGED <<m_usingCustomCoordinates, m_currentObject, m_customTarget, raText,
                   decText, startupTimer, network, disk>>

\* onTileDownloaded: a reply in flight emits finished()
onTileDownloaded ==
    /\ UNCHANGED <<healpix, gridVars, centerVars, clientVars, messierVars>>
    /\ \E reply \in BagToSet(replies) :
          LET tileIndex == reply.tileIndex
              outcome == ReplyOutcome(reply)
          IN  /\ replies' = replies (-) SetToBag({reply})
              /\ IF tileIndex >= Size(m_tiles)
                 THEN UNCHANGED <<m_tiles, m_currentTileIndex, processTimers, settled,
                                  disk>>
                 ELSE /\ disk' = IF outcome = "ok"
                                 THEN disk \cup {m_tiles[tileIndex].filename}
                                 ELSE disk
                      /\ m_tiles' = IF outcome = "ok"
                                    THEN [m_tiles EXCEPT ![tileIndex].image = TRUE,
                                                         ![tileIndex].downloaded = TRUE]
                                    ELSE IF outcome = "badimage"
                                    THEN [m_tiles EXCEPT ![tileIndex].image = FALSE]
                                    ELSE m_tiles
                      /\ m_currentTileIndex' = m_currentTileIndex + 1
                      /\ processTimers' = processTimers + 1
                      /\ settled' = settled \cup {tileIndex}
    /\ assembling' = FALSE
    /\ UNCHANGED <<m_usingCustomCoordinates, m_currentObject, m_customTarget,
                   m_actualTarget, raText, decText, createButtonEnabled,
                   createCustomButtonEnabled, startupTimer, creates, network,
                   m_fullMosaic>>

-----------------------------------------------------------------------------
(* Coordinate centring: calculateTargetPixelPosition and cropMosaicToCenter *)

\* Sky coordinates are whole arc seconds here: [ra, dec]. The code holds them
\* as doubles in degrees; every difference it takes is multiplied by 3600.
FullCircle == 1296000

\* the position healpixToSkyPosition returns when pix2ang throws (0.0, 0.0)
ErrorPosition == [ra |-> 0, dec |-> 0]

Abs(a) == IF a < 0 THEN -a ELSE a

\* cos(dec) in halves: the model's sky has the band around the equator
\* (cos = 1) and the band around 60 degrees (cos = 1/2)
CosHalves(dec) == IF Abs(dec) <= 108000 THEN 2 ELSE 1

\* ra2 - ra1 as sin(dra/2)^2 sees it: folded into half a turn either way
FoldRa(dra) ==
    LET m == dra % FullCircle
    IN  IF m > FullCircle \div 2 THEN m - FullCircle ELSE m

\* separations beyond this rank as equally far (keeps the squares below 2^31)
FarArcsec == 10000

\* calculateAngularDistance, up to the order of its results: c grows with
\* a = sin^2(ddec/2) + cos(dec1) cos(dec2) sin^2(dra/2), and for separations
\* of a few degrees a is (ddec^2 + cos cos dra^2) / 4; the value below is
\* 16 a in squared arc seconds
calculateAngularDistance(pos1, pos2) ==
    LET dra == Min(Abs(FoldRa(pos2.ra - pos1.ra)), FarArcsec)
        ddec == Min(Abs(pos2.dec - pos1.dec), FarArcsec)
    IN  4 * ddec * ddec + CosHalves(pos1.dec) * CosHalves(pos2.dec) * dra * dra

CloserOrEqual(distance, minDistance) == distance <= minDistance

\* if (distance < minDistance)
Closer(distance, minDistance) == distance < minDistance

\* the loop over m_tiles from index i on; best is the index of containingTile
\* (-1 for nullptr, whose minDistance is the largest double)
RECURSIVE FindContainingTile(_, _, _, _)
FindContainingTile(tiles, target, i, best) ==
    IF i >= Size(tiles) THEN best
    ELSE LET distance == calculateAngularDistance(target, tiles[i].skyCoordinates)
         IN  IF best = -1
                \/ Closer(distance,
                          calculateAngularDistance(target, tiles[best].skyCoordinates))
             THEN FindContainingTile(tiles, target, i + 1, i)
             ELSE FindContainingTile(tiles, target, i + 1, best)

\* ARCSEC_PER_PIXEL = 1.61 as the fraction 161 / 100
ArcsecPerPixelNum == 161
ArcsecPerPixelDen == 100

\* offsetRA_pixels as a fraction over OffsetDen: (ra difference in arc
\* seconds) * cos(target dec) / 1.61; the difference is not folded
OffsetDen == 2 * ArcsecPerPixelNum
OffsetRaNum(target, tile) ==
    (target.ra - tile.skyCoordinates.ra) * CosHalves(target.dec) * ArcsecPerPixelDen

\* offsetDec_pixels over OffsetDen: negative because y grows downward
OffsetDecNum(target, tile) ==
    -((target.dec - tile.skyCoordinates.dec) * 2 * ArcsecPerPixelDen)

SanityLimit == 400

OffsetTooLargeInclusive(num) == Abs(num) >= SanityLimit * OffsetDen

\* abs(offset) > 400
OffsetTooLarge(num) == Abs(num) > SanityLimit * OffsetDen

\* static_cast<int>(round(num / OffsetDen)): halves go away from zero
Round(num) ==
    LET q == (2 * Abs(num) + OffsetDen) \div (2 * OffsetDen)
    IN  IF num < 0 THEN -q ELSE q

\* QPoint(1536/2, 1536/2)
GeometricCenter == <<768, 768>>

ClampNone(v) == v

\* std::max(0, std::min(v, 1535))
ClampToMosaic(v) == Max(0, Min(v, 1535))

\* the tile center pixel plus the rounded offset, before the clamp
UnclampedTarget(target, tile) ==
    <<tile.gridX * 512 + 256 + Round(OffsetRaNum(target, tile)),
      tile.gridY * 512 + 256 + Round(OffsetDecNum(target, tile))>>

calculateTargetPixelPosition(tiles, target) ==
    LET best == FindContainingTile(tiles, target, 0, -1)
    IN  IF best = -1 THEN GeometricCenter
        ELSE IF OffsetTooLarge(OffsetRaNum(target, tiles[best]))
                \/ OffsetTooLarge(OffsetDecNum(target, tiles[best]))
        THEN GeometricCenter
        ELSE LET p == UnclampedTarget(target, tiles[best])
             IN  <<ClampToMosaic(p[1]), ClampToMosaic(p[2])>>

\* int cropSize = 1200, reduced to the raw mosaic
CropSize(raw) == Min(1200, Min(raw.width, raw.height))

\* one axis of the crop origin without the far-edge adjustment
CropOriginNoFarEdge(t, cropSize, extent) ==
    LET c0 == t - cropSize \div 2
    IN  IF c0 < 0 THEN 0 ELSE c0

\* one axis of the crop origin without the near-edge adjustment
CropOriginNoNearEdge(t, cropSize, extent) ==
    LET c0 == t - cropSize \div 2
    IN  IF c0 + cropSize > extent THEN extent - cropSize ELSE c0

\* one axis of the crop origin: target - cropSize / 2, set to 0 when
\* negative, then to extent - cropSize when the window passes the far edge
CropOrigin(t, cropSize, extent) ==
    LET c0 == t - cropSize \div 2
        c1 == IF c0 < 0 THEN 0 ELSE c0
    IN  IF c1 + cropSize > extent THEN extent - cropSize ELSE c1

\* QRect cropRect(cropX, cropY, cropSize, cropSize)
cropMosaicToCenter(raw, pixel) ==
    LET cropSize == CropSize(raw)
    IN  [x |-> CropOrigin(pixel[1], cropSize, raw.width),
         y |-> CropOrigin(pixel[2], cropSize, raw.height),
         size |-> cropSize]

NoRect == [x |-> 0, y |-> 0, size |-> 0]

\* no centring run is under way
CenteringIdle ==
    /\ skyTiles = EmptyGrid
    /\ skyTarget = ErrorPosition
    /\ rawMosaic = [width |-> 0, height |-> 0]
    /\ containingTile = -1
    /\ targetPixel = <<0, 0>>
    /\ cropRect = NoRect
    /\ step = "idle"

-----------------------------------------------------------------------------
(* ProperHipsClient: the survey registry and the url builders *)

\* A survey key is the tuple of its words: "DSS2_Color" is <<"DSS", "2", "Color">>.
\* QString::startsWith and QString::contains are asked for whole words only.
startsWith(key, word) == Len(key) > 0 /\ key[1] = word
contains(key, word) == \E i \in 1..Len(key) : key[i] = word

\* m_surveys as setupSurveys fills it, in the order of QMap::keys() (sorted)
m_surveys ==
    << [key |-> <<"2MASS", "Color">>, baseUrl |-> "http://alasky.u-strasbg.fr/2MASS/Color",
        format |-> "jpg"],
       [key |-> <<"2MASS", "J">>, baseUrl |-> "http://alasky.u-strasbg.fr/2MASS/J",
        format |-> "jpg"],
       [key |-> <<"DSS", "2", "Color">>, baseUrl |-> "http://alasky.u-strasbg.fr/DSS/DSSColor",
        format |-> "jpg"],
       [key |-> <<"DSS", "2", "Red">>, baseUrl |-> "http://alasky.u-strasbg.fr/DSS/DSS2-red",
        format |-> "jpg"],
       [key |-> <<"Gaia", "DR3">>, baseUrl |-> "http://alasky.u-strasbg.fr/Gaia/Gaia-DR3",
        format |-> "png"],
       [key |-> <<"Mellinger", "Color">>,
        baseUrl |-> "http://alasky.u-strasbg.fr/Mellinger/Mellinger_color", format |-> "jpg"],
       [key |-> <<"Rubin", "Virgo", "Color">>,
        baseUrl |-> "https://images.rubinobservatory.org/hips/SVImages_v2/color_ugri",
        format |-> "webp"],
       [key |-> <<"SDSS", "DR12">>, baseUrl |-> "http://alasky.u-strasbg.fr/SDSS/DR12/color",
        format |-> "jpg"] >>

\* m_surveys.keys()
SurveyKeys == [i \in 1..Len(m_surveys) |-> m_surveys[i].key]

\* m_surveys.contains(surveyName)
IsRegistered(surveyName) == \E i \in 1..Len(m_surveys) : m_surveys[i].key = surveyName

\* m_surveys[surveyName] for a registered name
SurveyInfo(surveyName) ==
    m_surveys[CHOOSE i \in 1..Len(m_surveys) : m_surveys[i].key = surveyName]

\* the largest value of a C++ int
IntMax == 2147483647

\* mutant: the bucket held in a 16-bit short
StoreDirShort(q) == ((q * 10000 + 32768) % 65536) - 32768

\* int dir = <long long>: q * 10000 when it fits, and the wrapped value
\* q * 10000 - 2^32 beyond (2^32 = 429496 * 10000 + 7296)
StoreDir(q) ==
    IF q <= IntMax \div 10000 THEN q * 10000
    ELSE -((429496 - q) * 10000 + 7296)

\* int dir = (pixel / 10000) * 10000 for a long long pixel
HipsDir(pixel) == StoreDir(TruncDiv(pixel, 10000))

\* QString("%1/Norder%2/Dir%3/Npix%4.%5"); the empty QString is <<>>
HipsUrl(baseUrl, o, pixel, format) == <<baseUrl, o, HipsDir(pixel), pixel, format>>

\* the builders take the pixel calculateHealPixel(position, order) returned
buildDSSUrl(pixel, o, survey) ==
    IF pixel < 0 THEN <<>>
    ELSE HipsUrl(SurveyInfo(survey).baseUrl, o, pixel, SurveyInfo(survey).format)

build2MASSUrl(pixel, o, survey) == buildDSSUrl(pixel, o, survey)

buildRubinUrl(pixel, o, survey) ==
    IF pixel < 0 THEN <<>>
    ELSE HipsUrl(SurveyInfo(survey).baseUrl, o, pixel, SurveyInfo(survey).format)

buildGenericHipsUrl(baseUrl, format, pixel, o) ==
    IF pixel < 0 THEN <<>> ELSE HipsUrl(baseUrl, o, pixel, format)

\* mutant: the generic branch left without a builder
buildTileUrlNoGeneric(surveyName, pixel, o) ==
    IF ~IsRegistered(surveyName) THEN <<>>
    ELSE IF startsWith(surveyName, "DSS") \/ contains(surveyName, "Mellinger")
    THEN buildDSSUrl(pixel, o, surveyName)
    ELSE IF startsWith(surveyName, "2MASS") THEN build2MASSUrl(pixel, o, surveyName)
    ELSE IF startsWith(surveyName, "Rubin") THEN buildRubinUrl(pixel, o, surveyName)
    ELSE <<>>

buildTileUrl(surveyName, pixel, o) ==
    IF ~IsRegistered(surveyName) THEN <<>>
    ELSE IF startsWith(surveyName, "DSS") \/ contains(surveyName, "Mellinger")
    THEN buildDSSUrl(pixel, o, surveyName)
    ELSE IF startsWith(surveyName, "2MASS") THEN build2MASSUrl(pixel, o, surveyName)
    ELSE IF startsWith(surveyName, "Rubin") THEN buildRubinUrl(pixel, o, surveyName)
    ELSE buildGenericHipsUrl(SurveyInfo(surveyName).baseUrl, SurveyInfo(surveyName).format,
                             pixel, o)

-----------------------------------------------------------------------------
(* ProperHipsClient: the survey test *)

\* m_testPositions as setupTestPositions fills it (whole degrees)
m_testPositions ==
    << [ra_deg |-> 83, dec_deg |-> -5, name |-> "Orion"],
       [ra_deg |-> 266, dec_deg |-> -29, name |-> "Galactic_Center"],
       [ra_deg |-> 186, dec_deg |-> 13, name |-> "Virgo_Center"],
       [ra_deg |-> 210, dec_deg |-> 54, name |-> "Ursa_Major"],
       [ra_deg |-> 0, dec_deg |-> 0, name |-> "Equator_0h"],
       [ra_deg |-> 180, dec_deg |-> 0, name |-> "Equator_12h"],
       [ra_deg |-> 23, dec_deg |-> 31, name |-> "Andromeda"],
       [ra_deg |-> 201, dec_deg |-> -43, name |-> "Centaurus"] >>

\* the order every test uses
TestOrder == 6

\* the position simple_hips_test asks for
M51 == [ra_deg |-> 202, dec_deg |-> 47, name |-> "M51"]

\* QNetworkAccessManager::get with the properties stored on the reply
TestRequest(surveyName, position, url) ==
    [survey |-> surveyName, position |-> position.name, url |-> url,
     pixel |-> calculateHealPixel(position, TestOrder)]

\* reply->error() == QNetworkReply::NoError, by what the server has (see Networks)
TestSucceeds(reply) ==
    IF network = "up" THEN TRUE
    ELSE IF network = "down" THEN FALSE
    ELSE reply.pixel % 2 = 1

\* the TileResult onReplyFinished appends
ReplyResult(reply) ==
    [survey |-> reply.survey, position |-> reply.position, success |-> TestSucceeds(reply),
     url |-> reply.url, healpixPixel |-> reply.pixel]

\* the TileResult startNextTest appends when no url could be built
UrlFailure(surveyName, position) ==
    [survey |-> surveyName, position |-> position.name, success |-> FALSE,
     url |-> "URL_BUILD_FAILED", healpixPixel |-> -1]

\* mutant: the indices advanced survey first
NextIndicesSurveyFirst(surveyIndex, positionIndex) ==
    IF surveyIndex + 1 >= Len(m_surveys)
    THEN <<IF positionIndex + 1 >= Len(m_testPositions) THEN Len(m_surveys) ELSE 0,
           positionIndex + 1>>
    ELSE <<surveyIndex + 1, positionIndex>>

\* moveToNextTest: <<m_currentSurveyIndex, m_currentPositionIndex>> afterwards
NextIndices(surveyIndex, positionIndex) ==
    IF positionIndex + 1 >= Len(m_testPositions)
    THEN <<surveyIndex + 1, 0>>
    ELSE <<surveyIndex, positionIndex + 1>>

\* moveToNextTest from the indices the caller holds: advance, then
\* singleShot(200, startNextTest)
moveToNextTest(surveyIndex, positionIndex, pending) ==
    /\ m_currentSurveyIndex' = NextIndices(surveyIndex, positionIndex)[1]
    /\ m_currentPositionIndex' = NextIndices(surveyIndex, positionIndex)[2]
    /\ testTimers' = pending + 1

\* finishTesting: emit testingComplete; the ProperHipsClient program has it
\* connected to QApplication::quit
finishTesting(pcAfter) ==
    /\ completeEmitted' = completeEmitted + 1
    /\ mainPc' = IF program = "ProperHipsClient" THEN "exited" ELSE pcAfter

\* startNextTest on the indices and results the caller holds; pcAfter is
\* where main() stands once the caller returns
StartNextTestBody(surveyIndex, positionIndex, results, pending, pcAfter) ==
    IF surveyIndex >= Len(SurveyKeys)
    THEN /\ finishTesting(pcAfter)
         /\ m_results' = results
         /\ m_currentSurveyIndex' = surveyIndex
         /\ m_currentPositionIndex' = positionIndex
         /\ testTimers' = pending
         /\ UNCHANGED <<testReplies, requestsIssued>>
    ELSE LET surveyName == SurveyKeys[surveyIndex + 1]
             position == m_testPositions[positionIndex + 1]
             url == buildTileUrl(surveyName, calculateHealPixel(position, TestOrder),
                                 TestOrder)
         IN  IF url = <<>>
             THEN /\ m_results' = Append(results, UrlFailure(surveyName, position))
                  /\ moveToNextTest(surveyIndex, positionIndex, pending)
                  /\ mainPc' = pcAfter
                  /\ UNCHANGED <<testReplies, requestsIssued, completeEmitted>>
             ELSE /\ testReplies' = testReplies
                                      (+) SetToBag({TestRequest(surveyName, position, url)})
                  /\ requestsIssued' = requestsIssued + 1
                  /\ m_results' = results
                  /\ m_currentSurveyIndex' = surveyIndex
                  /\ m_currentPositionIndex' = positionIndex
                  /\ testTimers' = pending
                  /\ mainPc' = pcAfter
                  /\ UNCHANGED completeEmitted

\* main() of the ProperHipsClient program calls testAllSurveys and enters
\* the event loop
testAllSurveys ==
    /\ mainPc = "main"
    /\ program = "ProperHipsClient"
    /\ StartNextTestBody(0, 0, <<>>, testTimers, "exec")
    /\ UNCHANGED <<healpix, gridVars, enhVars, centerVars, messierVars, urlCall, program>>

\* the names and positions testSurveyAtPosition is called with
SingleTestSurveys == {<<"DSS", "2", "Color">>, <<"Gaia", "DR3">>, <<"PanSTARRS", "DR1">>}
SingleTestPositions == {M51, m_testPositions[1]}

\* a program calls testSurveyAtPosition once and enters the event loop
\* (simple_hips_test: DSS2_Color at M51)
testSurveyAtPosition ==
    /\ mainPc = "main"
    /\ program = "SimpleHipsTest"
    /\ \E surveyName \in SingleTestSurveys, position \in SingleTestPositions :
          LET url == buildTileUrl(surveyName, calculateHealPixel(position, TestOrder),
                                  TestOrder)
          IN  IF url = <<>>
              THEN UNCHANGED <<testReplies, requestsIssued>>
              ELSE /\ testReplies' = testReplies
                                       (+) SetToBag({TestRequest(surveyName, position, url)})
                   /\ requestsIssued' = requestsIssued + 1
    /\ mainPc' = "exec"
    /\ UNCHANGED <<healpix, gridVars, enhVars, centerVars, messierVars, urlCall, program,
                   m_currentSurveyIndex, m_currentPositionIndex, m_results, testTimers,
                   completeEmitted>>

\* a pending singleShot(200, startNextTest) fires
startNextTest ==
    /\ mainPc = "exec"
    /\ testTimers > 0
    /\ StartNextTestBody(m_currentSurveyIndex, m_currentPositionIndex, m_results,
                         testTimers - 1, mainPc)
    /\ UNCHANGED <<healpix, gridVars, enhVars, centerVars, messierVars, urlCall, program>>

\* onReplyFinished: a test request in flight emits finished()
onReplyFinished ==
    /\ mainPc = "exec"
    /\ \E reply \in BagToSet(testReplies) :
          /\ testReplies' = testReplies (-) SetToBag({reply})
          /\ m_results' = Append(m_results, ReplyResult(reply))
    /\ moveToNextTest(m_currentSurveyIndex, m_currentPositionIndex, testTimers)
    /\ UNCHANGED <<healpix, gridVars, enhVars, centerVars, messierVars, urlCall, program, mainPc,
                   requestsIssued, completeEmitted>>

\* no buildTileUrl call is being looked at
NoUrlCall == [surveyName |-> <<>>, order |-> 0, pixel |-> 0, url |-> <<>>, returned |-> FALSE]

\* the client as its constructor leaves it
InitClientState ==
    /\ m_currentSurveyIndex = 0
    /\ m_currentPositionIndex = 0
    /\ m_results = <<>>
    /\ testReplies = EmptyBag
    /\ testTimers = 0
    /\ requestsIssued = 0
    /\ completeEmitted = 0

\* no program drives a client
ClientIdle ==
    /\ InitClientState
    /\ urlCall = NoUrlCall
    /\ program = "none"
    /\ mainPc = "idle"

-----------------------------------------------------------------------------
(* MessierMosaicCreator: the grid size selector and the download chain *)

\* createProperNxMGrid as one call: the steps of the try block in sequence
\* (the neighbour query catches its own exceptions)
createProperNxMGrid(center, o, w, h) ==
    IF Is3x3Request(w, h) THEN createProper3x3Grid(center, o)
    ELSE LET ref == createProper3x3Grid(center, o)
             filled == FillEstimates(PlaceReference(AllocateGrid(w, h), ref, w, h),
                                     center, o, w, h)
         IN  IF CenterMatchesReference(filled, ref, w, h) THEN filled
             ELSE createFallbackGrid(center, o, w, h)

\* the grid createTileGrid builds itself when the grid it got has the wrong
\* shape: nside / 32 as spacing, no clamp
SimpleFallbackGrid(center, o, w, h) ==
    [y \in 0..(h - 1) |-> [x \in 0..(w - 1) |->
        center + (y - h \div 2) * (NSide(o) \div 32) * 8 + (x - w \div 2) * (NSide(o) \div 32)]]

\* "%1/hips_order%2_pixel%3.jpg" without the directory: order and pixel
MessierFilename(o, pixel) == <<o, pixel>>

\* MessierMosaicCreator::createTileGrid for the grid size (w, h) selected
MessierTileGrid(position, w, h) ==
    LET o == 8
        center == calculateHealPixel(position, o)
        got == createProperNxMGrid(center, o, w, h)
        pixelGrid == IF got = EmptyGrid THEN SimpleFallbackGrid(center, o, w, h)
                     ELSE IF Size(got) # h THEN SimpleFallbackGrid(center, o, w, h)
                     ELSE IF Size(got[0]) # w THEN SimpleFallbackGrid(center, o, w, h)
                     ELSE got
    IN  [i \in 0..(w * h - 1) |->
            LET x == i % w
                y == i \div w
            IN  [gridX |-> x, gridY |-> y, healpixPixel |-> pixelGrid[y][x],
                 filename |-> MessierFilename(o, pixelGrid[y][x]),
                 url |-> TileUrl(o, pixelGrid[y][x]), downloaded |-> FALSE,
                 image |-> FALSE]]

\* MessierMosaicCreator::assembleFinalMosaic: nothing is stored without a
\* successful tile; otherwise the mosaic has the size of the grid selected
\* now, with every successful tile drawn at (gridX * 512, gridY * 512)
assembleFinalMosaic(tiles, w, h) ==
    IF Cardinality(SuccessfulTiles(tiles)) = 0 THEN messierMosaic
    ELSE [width |-> w * tileSize, height |-> h * tileSize,
          drawn |-> {DrawPosition(tiles[i]) : i \in SuccessfulTiles(tiles)}]

\* a QImage that is null
NullMosaic == [width |-> 0, height |-> 0, drawn |-> {}]

\* MessierMosaicCreator::processNextTile on the tile list and index the
\* handler holds; button is the state the caller leaves the create button in
MessierProcessNextTileBody(tiles, idx, pending, button) ==
    IF idx >= Size(tiles)
    THEN /\ messierAssembling' = TRUE
         /\ messierMosaic' = assembleFinalMosaic(tiles, m_gridWidth, m_gridHeight)
         /\ messierButtonEnabled' = TRUE
         /\ messierTiles' = tiles
         /\ messierTileIndex' = idx
         /\ messierTimers' = pending
         /\ UNCHANGED messierReplies
    ELSE IF tiles[idx].filename \in messierDisk
    THEN /\ messierAssembling' = FALSE
         /\ messierTiles' = LoadFromCache(tiles, idx)
         /\ messierTileIndex' = idx + 1
         /\ messierTimers' = pending + 1
         /\ messierButtonEnabled' = button
         /\ UNCHANGED <<messierMosaic, messierReplies>>
    ELSE /\ messierAssembling' = FALSE
         /\ messierTiles' = tiles
         /\ messierTileIndex' = idx
         /\ messierTimers' = pending
         /\ messierReplies' = messierReplies (+) SetToBag({Request(tiles, idx)})
         /\ messierButtonEnabled' = button
         /\ UNCHANGED messierMosaic

\* the items of m_gridSizeSelector: <<width, height>>
GridSizes ==
    {<<3, 3>>, <<4, 4>>, <<5, 5>>, <<6, 6>>, <<8, 8>>, <<10, 10>>, <<12, 12>>,
     <<15, 15>>, <<4, 3>>, <<6, 4>>, <<8, 6>>, <<10, 8>>, <<15, 8>>, <<20, 10>>}

\* sizes of the selector the user picks here: those of at most MaxTiles tiles
SelectableSizes == {size \in GridSizes : size[1] * size[2] <= MaxTiles}

\* a session is bounded by the mosaics asked for
MessierUserActive == messierCreates < MaxCreates

\* updateGridSize: the user picks another entry of m_gridSizeSelector
updateGridSize ==
    /\ MessierUserActive
    /\ \E size \in SelectableSizes :
          /\ size # <<m_gridWidth, m_gridHeight>>
          /\ m_gridWidth' = size[1]
          /\ m_gridHeight' = size[2]
    /\ messierMosaic' = NullMosaic
    /\ messierAssembling' = FALSE
    /\ UNCHANGED <<healpix, gridVars, enhVars, centerVars, clientVars, messierTiles,
                   messierTileIndex, messierReplies, messierTimers, messierButtonEnabled,
                   messierDisk, messierCreates>>

\* MessierMosaicCreator::onCreateMosaicClicked: createMosaic(m_currentObject)
\* for the object selected from the start
messierCreateMosaicClicked ==
    /\ MessierUserActive
    /\ messierButtonEnabled
    /\ messierCreates' = messierCreates + 1
    /\ MessierProcessNextTileBody(MessierTileGrid(Catalog[1], m_gridWidth, m_gridHeight),
                                  0, messierTimers, FALSE)
    /\ UNCHANGED <<healpix, gridVars, enhVars, centerVars, clientVars, m_gridWidth,
                   m_gridHeight, messierDisk>>

\* a pending singleShot(.., processNextTile) of the Messier creator fires
messierProcessNextTile ==
    /\ messierTimers > 0
    /\ MessierProcessNextTileBody(messierTiles, messierTileIndex, messierTimers - 1,
                                  messierButtonEnabled)
    /\ UNCHANGED <<healpix, gridVars, enhVars, centerVars, clientVars, m_gridWidth,
                   m_gridHeight, messierDisk, messierCreates>>

\* MessierMosaicCreator::onTileDownloaded
messierTileDownloaded ==
    /\ \E reply \in BagToSet(messierReplies) :
          LET tileIndex == reply.tileIndex
              outcome == ReplyOutcome(reply)
          IN  /\ messierReplies' = messierReplies (-) SetToBag({reply})
              /\ IF tileIndex >= Size(messierTiles)
                 THEN UNCHANGED <<messierTiles, messierTileIndex, messierTimers,
                                  messierDisk>>
                 ELSE /\ messierDisk' = IF outcome = "ok"
                                        THEN messierDisk
                                                \cup {messierTiles[tileIndex].filename}
                                        ELSE messierDisk
                      /\ messierTiles' =
                            IF outcome = "ok"
                            THEN [messierTiles EXCEPT ![tileIndex].image = TRUE,
                                                      ![tileIndex].downloaded = TRUE]
                            ELSE IF outcome = "badimage"
                            THEN [messierTiles EXCEPT ![tileIndex].image = FALSE]
                            ELSE messierTiles
                      /\ messierTileIndex' = messierTileIndex + 1
                      /\ messierTimers' = messierTimers + 1
    /\ messierAssembling' = FALSE
    /\ UNCHANGED <<healpix, gridVars, enhVars, centerVars, clientVars, m_gridWidth,
                   m_gridHeight, messierButtonEnabled, messierMosaic, messierCreates>>

\* the Messier creator as its constructor leaves it: the default grid is 3x3
InitMessierState ==
    /\ m_gridWidth = 3
    /\ m_gridHeight = 3
    /\ messierTiles = EmptyGrid
    /\ messierTileIndex = 0
    /\ messierReplies = EmptyBag
    /\ messierTimers = 0
    /\ messierButtonEnabled = TRUE
    /\ messierMosaic = NullMosaic
    /\ messierAssembling = FALSE
    /\ messierCreates = 0

\* no Messier creator is at work
MessierIdle == InitMessierState /\ messierDisk = {}

-----------------------------------------------------------------------------
(* Initial states and specifications *)

\* the creator as its constructor leaves it
InitEnhancedState ==
    /\ m_usingCustomCoordinates = FALSE
    /\ m_currentObject = NoPosition
    /\ m_customTarget = NoPosition
    /\ m_actualTarget = NoPosition
    /\ raText = ""
    /\ decText = ""
    /\ createButtonEnabled = TRUE
    /\ createCustomButtonEnabled = FALSE
    /\ m_tiles = EmptyGrid
    /\ m_currentTileIndex = 0
    /\ replies = EmptyBag
    /\ processTimers = 0
    /\ startupTimer = TRUE
    /\ settled = {}
    /\ assembling = FALSE
    /\ creates = 0
    /\ m_fullMosaic = NullImage

\* no call of createProperNxMGrid is running (the creator uses createProper3x3Grid)
GridIdle ==
    /\ order = 8
    /\ centerPixel = 0
    /\ gridWidth = 3
    /\ gridHeight = 3
    /\ throwAt = "none"
    /\ pc = "idle"
    /\ grid = EmptyGrid
    /\ reference3x3 = EmptyGrid
    /\ centerValid = TRUE
    /\ threw = FALSE
    /\ path = "none"
    /\ result = EmptyGrid

\* the neighbour queries tried under the creator: the fallback build, the
\* library throwing, the library with all neighbours, and with SW (slot 7) absent
EnhancedHealpixChoices ==
    {h \in HealpixChoices : h.missing \subseteq {7}}

\* the output directory is empty, or holds what an earlier M1 run saved: the
\* tiles the server has (it has no Npix-1)
EarlierRun ==
    LET tiles == createTileGrid(Catalog[1])
    IN  {tiles[i].filename : i \in {j \in 0..8 : tiles[j].healpixPixel >= 0}}

Disks == {{}, EarlierRun}

InitEnhanced ==
    /\ healpix \in EnhancedHealpixChoices
    /\ network \in Networks
    /\ disk \in Disks
    /\ GridIdle
    /\ InitEnhancedState
    /\ CenteringIdle
    /\ ClientIdle
    /\ MessierIdle

NextEnhanced ==
    \/ onObjectSelectionChanged
    \/ onTabChanged
    \/ EditRa
    \/ EditDec
    \/ onCreateMosaicClicked
    \/ onCreateCustomMosaicClicked
    \/ processNextTile
    \/ onTileDownloaded

SpecEnhanced == InitEnhanced /\ [][NextEnhanced]_vars

\* no creator is at work while the grid builder is exercised
CreatorIdle == InitEnhancedState /\ network = "up" /\ disk = {}

Init == InitHealpix /\ InitGrid /\ CreatorIdle /\ CenteringIdle /\ ClientIdle /\ MessierIdle

Next == Call \/ Step1Reference \/ Step2Embed \/ Step3Estimate \/ Step4Validate

Spec == Init /\ [][Next]_vars

-----------------------------------------------------------------------------
(* SpecSelector: createProperNxMGrid for the sizes of the grid size selector *)

\* MessierMosaicCreator::createTileGrid calls createProperNxMGrid(centerPixel,
\* 8, m_gridWidth, m_gridHeight) with the selected size; the centre pixel is
\* the first, a middle or the last pixel of the order
InitSelector ==
    /\ InitHealpix
    /\ order = 8
    /\ centerPixel \in {0, NPix(order) \div 2, NPix(order) - 1}
    /\ \E size \in GridSizes : gridWidth = size[1] /\ gridHeight = size[2]
    /\ throwAt \in {"none", "step1", "step2", "step3", "step4"}
    /\ pc = "call"
    /\ grid = EmptyGrid
    /\ reference3x3 = EmptyGrid
    /\ centerValid = TRUE
    /\ threw = FALSE
    /\ path = "none"
    /\ result = EmptyGrid
    /\ CreatorIdle
    /\ CenteringIdle
    /\ ClientIdle
    /\ MessierIdle

SpecSelector == InitSelector /\ [][Next]_vars

-----------------------------------------------------------------------------
(* SpecCentering: inputs and steps *)

\* an order-8 pixel is about 0.229 degrees across: 824 arc seconds, 512 pixels
PixelSpan == 824

\* centres of the pixel that holds the target: on the equator at RA 202 deg,
\* at Dec 60 deg, and next to RA 0 / Dec 0 (its western neighbours lie
\* beyond RA 360)
GridCenters ==
    {[ra |-> 727200, dec |-> 0], [ra |-> 727200, dec |-> 216000],
     [ra |-> 300, dec |-> 200]}

\* cells whose pixel is -1: none, the SW cell, all neighbours (the neighbour
\* query failed), every cell (calculateHealPixel failed)
SentinelSets == {{}, {0}, (0..8) \ {4}, 0..8}

\* what healpixToSkyPosition gives for the pixel -1: the error position when
\* pix2ang throws, otherwise whatever the library computes from it
SentinelPositions == {ErrorPosition, [ra |-> 1290000, dec |-> -300000]}

\* the nine tiles of createTileGrid around a pixel centre: row 0 is the
\* southern row, column 0 the western one
TilesAround(center, sentinels, sentinelAt) ==
    [i \in 0..8 |->
        LET x == i % 3
            y == i \div 3
        IN  [gridX |-> x, gridY |-> y,
             skyCoordinates |->
                IF i \in sentinels THEN sentinelAt
                ELSE [ra |-> (center.ra + ((x - 1) * PixelSpan * 2)
                                              \div CosHalves(center.dec)) % FullCircle,
                      dec |-> center.dec + (y - 1) * PixelSpan]]]

\* where the target lies relative to the pixel centre, in arc seconds: 644 is
\* 400 pixels, 824 the centre of the next tile, 1324 a point beyond it
TargetOffsets ==
    {-1324, -824, -645, -644, -500, -300, 0, 1, 300, 500, 644, 645, 824, 1324}

TargetsAround(center) ==
    {[ra |-> (center.ra + dx) % FullCircle, dec |-> center.dec + dy] :
        dx \in TargetOffsets, dy \in TargetOffsets} \cup {ErrorPosition}

\* raw mosaics handed to cropMosaicToCenter: the 3x3 mosaic of the creator,
\* a narrow one and a single pixel
RawSizes == {[width |-> 1536, height |-> 1536], [width |-> 1000, height |-> 2048],
             [width |-> 1, height |-> 1]}

\* target pixels for a bare call of cropMosaicToCenter
ProbePixels == {<<-5, 2000>>, <<0, 1535>>, <<599, 937>>, <<600, 936>>, <<768, 768>>}

InitCentering ==
    /\ healpix = [build |-> "library", throws |-> FALSE, missing |-> {}]
    /\ GridIdle
    /\ CreatorIdle
    /\ ClientIdle
    /\ MessierIdle
    /\ rawMosaic \in RawSizes
    /\ cropRect = NoRect
    /\ containingTile = -1
    /\ \/ /\ step = "start"
          /\ targetPixel = <<0, 0>>
          /\ \E center \in GridCenters :
                /\ skyTarget \in TargetsAround(center)
                /\ \/ skyTiles = EmptyGrid
                   \/ \E sentinels \in SentinelSets, sentinelAt \in SentinelPositions :
                         skyTiles = TilesAround(center, sentinels, sentinelAt)
       \/ /\ step = "probe"
          /\ targetPixel \in ProbePixels
          /\ skyTiles = EmptyGrid
          /\ skyTarget = ErrorPosition

\* step 2 of assembleFinalMosaicCentered
LocateTarget ==
    /\ step = "start"
    /\ containingTile' = FindContainingTile(skyTiles, skyTarget, 0, -1)
    /\ targetPixel' = calculateTargetPixelPosition(skyTiles, skyTarget)
    /\ step' = "located"
    /\ UNCHANGED <<healpix, gridVars, enhVars, clientVars, messierVars, skyTiles, skyTarget,
                   rawMosaic,
                   cropRect>>

\* step 3 of assembleFinalMosaicCentered, or a bare call
CropMosaic ==
    /\ step \in {"located", "probe"}
    /\ cropRect' = cropMosaicToCenter(rawMosaic, targetPixel)
    /\ step' = IF step = "located" THEN "cropped" ELSE "probed"
    /\ UNCHANGED <<healpix, gridVars, enhVars, clientVars, messierVars, skyTiles, skyTarget,
                   rawMosaic,
                   containingTile, targetPixel>>

NextCentering == LocateTarget \/ CropMosaic

SpecCentering == InitCentering /\ [][NextCentering]_vars

-----------------------------------------------------------------------------
(* SpecUrl: buildTileUrl on survey names, orders and pixels *)

\* the orders of the registry: maxOrder is at most 13 (Gaia_DR3)
UrlOrders == 0..13

\* survey names handed to buildTileUrl: the registered ones, an unknown one,
\* an unregistered one of the DSS family, and the empty name
UrlSurveyNames ==
    {SurveyKeys[i] : i \in 1..Len(SurveyKeys)}
        \cup {<<"PanSTARRS", "DR1">>, <<"DSS", "1">>, <<>>}

\* what calculateHealPixel can return at an order: ang2pix yields a pixel of
\* the order (the first, the last, and those around the bucket boundaries)
PixelsOfOrder(o) ==
    {p \in {0, 1, 9999, 10000, 19999, 65535, 65536, 70000, NPix(o) \div 2, NPix(o) - 1} :
        p < NPix(o)}

InitUrl ==
    /\ healpix \in {h \in HealpixChoices : h.missing = {}}
    /\ \E name \in UrlSurveyNames, o \in UrlOrders :
          \E pixel \in (IF healpix.throws THEN {-1} ELSE PixelsOfOrder(o)) :
             urlCall = [surveyName |-> name, order |-> o, pixel |-> pixel, url |-> <<>>,
                        returned |-> FALSE]
    /\ program = "none"
    /\ mainPc = "idle"
    /\ InitClientState
    /\ GridIdle
    /\ CreatorIdle
    /\ CenteringIdle
    /\ MessierIdle

\* buildTileUrl(surveyName, position, order) returns
BuildTileUrl ==
    /\ ~urlCall.returned
    /\ mainPc = "idle"
    /\ urlCall' = [urlCall EXCEPT !.url = buildTileUrl(urlCall.surveyName, urlCall.pixel,
                                                       urlCall.order),
                                  !.returned = TRUE]
    /\ UNCHANGED <<healpix, gridVars, enhVars, centerVars, messierVars, program, mainPc,
                   m_currentSurveyIndex, m_currentPositionIndex, m_results, testReplies,
                   testTimers, requestsIssued, completeEmitted>>

NextUrl == BuildTileUrl

SpecUrl == InitUrl /\ [][NextUrl]_vars

-----------------------------------------------------------------------------
(* SpecTester: the two test programs of ProperHipsClient *)

InitTester ==
    /\ healpix \in {h \in HealpixChoices : h.missing = {}}
    /\ network \in Networks
    /\ program \in {"ProperHipsClient", "SimpleHipsTest"}
    /\ mainPc = "main"
    /\ urlCall = NoUrlCall
    /\ InitClientState
    /\ GridIdle
    /\ InitEnhancedState
    /\ disk = {}
    /\ CenteringIdle
    /\ MessierIdle

NextTester == testAllSurveys \/ testSurveyAtPosition \/ startNextTest \/ onReplyFinished

SpecTester == InitTester /\ [][NextTester]_vars

-----------------------------------------------------------------------------
(* SpecMessier: the event loop of MessierMosaicCreator *)

\* what an earlier session left in messier_mosaics: the tiles of a 3x3 M1
\* mosaic that the server has
MessierEarlierRun ==
    LET tiles == MessierTileGrid(Catalog[1], 3, 3)
    IN  {tiles[i].filename : i \in {j \in 0..8 : tiles[j].healpixPixel >= 0}}

InitMessier ==
    /\ healpix \in EnhancedHealpixChoices
    /\ network \in Networks
    /\ disk = {}
    /\ messierDisk \in {{}, MessierEarlierRun}
    /\ InitMessierState
    /\ GridIdle
    /\ InitEnhancedState
    /\ CenteringIdle
    /\ ClientIdle

NextMessier ==
    \/ updateGridSize
    \/ messierCreateMosaicClicked
    \/ messierProcessNextTile
    \/ messierTileDownloaded

SpecMessier == InitMessier /\ [][NextMessier]_vars

-----------------------------------------------------------------------------
(* Properties of the grid builder (checked under Spec) *)

Returned == pc = "return"

CenterX == gridWidth \div 2
CenterY == gridHeight \div 2

\* the value the layout puts at a compass direction, in terms of the raw slots
\* of the neighbour query (slot order S, SE, E, NE, N, NW, W, SW)
SlotOrAbsent(i) ==
    IF healpix.throws THEN -1
    ELSE IF HealpixNeighbors(centerPixel, order)[i] >= 0
         THEN HealpixNeighbors(centerPixel, order)[i] ELSE -1

\* the linear estimate written out: center + dy*spacing*8 + dx*spacing clamped
\* to [0, 12*nside^2 - 1], spacing = max(1, nside/32), nside = 2^order
LinearEstimate(x, y) ==
    LET nside == 2 ^ order
        spacing == IF nside \div 32 >= 1 THEN nside \div 32 ELSE 1
        raw == centerPixel + (y - CenterY) * spacing * 8 + (x - CenterX) * spacing
        top == 12 * nside * nside - 1
    IN  IF raw < 0 THEN 0 ELSE IF raw > top THEN top ELSE raw

HasShape(g, w, h) ==
    /\ DOMAIN g = 0..(h - 1)
    /\ \A y \in DOMAIN g : DOMAIN g[y] = 0..(w - 1)

\* number of cells with a non-negative pixel id, as counted by testSpecificGrid
ValidCells(g) ==
    Cardinality({c \in (DOMAIN g) \X (0..(gridWidth - 1)) :
                    c[2] \in DOMAIN g[c[1]] /\ g[c[1]][c[2]] >= 0})

\* coverage = validPixels / (width*height) * 100 < 95
LowCoverage(g) == ValidCells(g) * 100 < 95 * (gridWidth * gridHeight)

\* C1: every returned grid has exactly gridHeight rows of exactly gridWidth
\* cells and carries the center pixel at [height/2][width/2], whichever return
\* statement (3x3, embed-and-estimate, fallback) produced it.
C1_ShapeAndCenter ==
    Returned =>
        /\ HasShape(result, gridWidth, gridHeight)
        /\ result[CenterY][CenterX] = centerPixel

\* C1 witness: a non-3x3 request served by createFallbackGrid has returned
C1_Witness ==
    Returned /\ path = "fallback" /\ gridWidth = 4 /\ gridHeight = 2

\* C2: for width >= 3 and height >= 3, a returned grid that did not come from
\* createFallbackGrid carries createProper3x3Grid(center, order) cell for cell
\* in rows height/2-1..height/2+1 and columns width/2-1..width/2+1.
C2_CenterBlockIsReference ==
    (Returned /\ gridWidth >= 3 /\ gridHeight >= 3 /\ path # "fallback") =>
        \A y \in 0..2 : \A x \in 0..2 :
            /\ CenterY - 1 + y \in DOMAIN result
            /\ CenterX - 1 + x \in DOMAIN result[CenterY - 1 + y]
            /\ result[CenterY - 1 + y][CenterX - 1 + x]
                  = createProper3x3Grid(centerPixel, order)[y][x]

\* C2 witness: a 5x4 grid returned by the embed-and-estimate path
C2_Witness ==
    Returned /\ path = "expanded" /\ gridWidth = 5 /\ gridHeight = 4

\* C3: a 3x3 request returns exactly createProper3x3Grid(center, order).
C3_ThreeByThreeDelegates ==
    (Returned /\ gridWidth = 3 /\ gridHeight = 3) =>
        result = createProper3x3Grid(centerPixel, order)

\* C3 witness: a 3x3 request has returned although the try block would throw
C3_Witness ==
    Returned /\ gridWidth = 3 /\ gridHeight = 3 /\ throwAt = "step1"

\* C4: the 3x3 grid is row 0 = (SW, S, SE), row 1 = (W, center, E),
\* row 2 = (NW, N, NE), an absent direction being -1, and [1][1] is the center
\* also when the neighbour query throws.
C4_Layout ==
    LET g == IF path = "3x3" THEN result ELSE reference3x3
    IN  (path = "3x3" \/ pc \in {"step2", "step3", "step4"}) =>
            /\ HasShape(g, 3, 3)
            /\ g[0][0] = SlotOrAbsent(7) /\ g[0][1] = SlotOrAbsent(0) /\ g[0][2] = SlotOrAbsent(1)
            /\ g[1][0] = SlotOrAbsent(6) /\ g[1][1] = centerPixel     /\ g[1][2] = SlotOrAbsent(2)
            /\ g[2][0] = SlotOrAbsent(5) /\ g[2][1] = SlotOrAbsent(4) /\ g[2][2] = SlotOrAbsent(3)

\* C4 witness: the 3x3 grid was built while the neighbour query threw
C4_Witness ==
    path = "3x3" /\ healpix.throws /\ result[1][1] = centerPixel /\ result[0][0] = -1

\* C5: in a returned grid of a size other than 3x3, every cell outside the
\* centre 3x3 block equals the clamped linear estimate and is a pixel id in
\* [0, 12*nside^2).
C5_OuterCellsEstimated ==
    (Returned /\ ~(gridWidth = 3 /\ gridHeight = 3)) =>
        \A y \in 0..(gridHeight - 1) : \A x \in 0..(gridWidth - 1) :
            ~(x >= CenterX - 1 /\ x <= CenterX + 1 /\ y >= CenterY - 1 /\ y <= CenterY + 1)
                => /\ result[y][x] = LinearEstimate(x, y)
                   /\ result[y][x] >= 0
                   /\ result[y][x] < 12 * (2 ^ order) * (2 ^ order)

\* C5 witness: an outer cell of an embed-path grid whose estimate was clamped to 0
C5_Witness ==
    Returned /\ path = "expanded" /\ gridWidth = 5 /\ centerPixel = 0 /\ result[0][0] = 0

\* C6: when step 4 finds a mismatch or the try block throws, the caller gets
\* exactly the createFallbackGrid result, every cell of which (centre block
\* included) is the clamped linear estimate; a grid is always returned.
C6_FallbackOnFailure ==
    /\ (Returned /\ (threw \/ ~centerValid)) =>
          /\ path = "fallback"
          /\ HasShape(result, gridWidth, gridHeight)
          /\ \A y \in 0..(gridHeight - 1) : \A x \in 0..(gridWidth - 1) :
                result[y][x] = LinearEstimate(x, y)
    /\ (throwAt # "none" /\ pc \in {"step1", "step2", "step3", "step4"}) => ENABLED Next

\* C6 witness: the exception came after the exact block was embedded, and the
\* returned grid no longer carries it
C6_Witness ==
    /\ Returned /\ threw /\ throwAt = "step3" /\ gridWidth = 4 /\ gridHeight = 4
    /\ ~CenterMatchesReference(result, reference3x3, gridWidth, gridHeight)

\* C7 as claimed: a 4x4 request whose assembled grid has coverage below 95%
\* is served by createFallbackGrid.
C7_LowCoverageFallsBack ==
    (Returned /\ gridWidth = 4 /\ gridHeight = 4 /\ ~threw /\ LowCoverage(grid))
        => path = "fallback"

\* C7 amended: coverage never selects the fallback: a returned 4x4 grid with
\* coverage below 95% is the embed-and-estimate grid with the absent (-1)
\* neighbours kept, and a grid returned by createFallbackGrid has no -1 cell.
C7_LowCoverageKeepsEmbeddedGrid ==
    (Returned /\ gridWidth = 4 /\ gridHeight = 4) =>
        /\ LowCoverage(result) => (path = "expanded" /\ result = grid /\ ~threw)
        /\ path = "fallback" => ValidCells(result) = gridWidth * gridHeight

\* C7 witness: a 4x4 grid returned with one absent neighbour (15/16 = 93.75%)
C7_Witness ==
    /\ Returned /\ gridWidth = 4 /\ gridHeight = 4 /\ path = "expanded"
    /\ ValidCells(result) = 15


\* the compass label the claim gives to slot i of the neighbour query
SlotLabel(i) ==
    IF i = 0 THEN "S" ELSE IF i = 1 THEN "SE" ELSE IF i = 2 THEN "E"
    ELSE IF i = 3 THEN "NE" ELSE IF i = 4 THEN "N" ELSE IF i = 5 THEN "NW"
    ELSE IF i = 6 THEN "W" ELSE "SW"

\* the neighbour query has been made for centerPixel
Queried == pc # "call" /\ (path = "3x3" \/ reference3x3 # EmptyGrid)

Interior(pixel, o) == \A i \in 0..7 : HealpixNeighbors(pixel, o)[i] >= 0

\* C20: reciprocity of the neighbour query the repository defines (the
\* fallback Healpix_Base::neighbors): for an interior pixel p, every pixel q
\* returned for p has p among its own neighbours.
C20_Reciprocity ==
    (healpix.build = "fallback" /\ Interior(centerPixel, order)) =>
        \A i \in 0..7 :
            LET q == HealpixNeighbors(centerPixel, order)[i]
            IN  \E j \in 0..7 : HealpixNeighbors(q, order)[j] = centerPixel

\* C24: the validation of step 4 never finds a mismatch: when it runs, the
\* centre block of the grid still equals the reference, so centerValid stays
\* true and the fallback grid is returned only after an exception.
C24_ValidationNeverFails ==
    /\ pc = "step4" =>
          CenterMatchesReference(grid, reference3x3, gridWidth, gridHeight)
    /\ centerValid
    /\ (Returned /\ path = "fallback") => threw

\* step 4 has compared a grid with absent neighbours and estimated cells, and
\* the embed-and-estimate grid was returned
C24_Witness ==
    /\ Returned /\ path = "expanded" /\ ~threw /\ centerValid
    /\ gridWidth = 5 /\ gridHeight = 3
    /\ healpix.missing # {}
    /\ result[0][0] = LinearEstimate(0, 0)

-----------------------------------------------------------------------------
(* Properties of the grid sizes of the selector (checked under SpecSelector) *)

\* positions <<x, y>> the estimation step fills: those outside the centre block
EstimatedCells ==
    {c \in (0..(gridWidth - 1)) \X (0..(gridHeight - 1)) :
        ~InCenterBlock(c[1], c[2], gridWidth, gridHeight)}

\* at order 8 the estimate is center + 64 dy + 8 dx: no cell of the grid
\* falls below 0 or above the last pixel
NoEstimateClamped ==
    /\ centerPixel - 64 * CenterY - 8 * CenterX >= 0
    /\ centerPixel + 64 * (gridHeight - 1 - CenterY) + 8 * (gridWidth - 1 - CenterX)
          <= 12 * 256 * 256 - 1

\* C28: for every grid size of the selector at order 8, with no estimate
\* clamped, the cells filled by the linear estimate carry pairwise distinct
\* pixel ids.
C28_EstimatedCellsDistinct ==
    (Returned /\ path = "expanded" /\ order = 8 /\ NoEstimateClamped) =>
        \A c1, c2 \in EstimatedCells :
            c1 # c2 => result[c1[2]][c1[1]] # result[c2[2]][c2[1]]

-----------------------------------------------------------------------------
(* Properties of the mosaic creator (checked under SpecEnhanced) *)

\* cells of the current tile grid that hold the sentinel -1
SentinelTiles == {i \in DOMAIN m_tiles : m_tiles[i].healpixPixel = -1}

\* the pixel id a request in flight asks the server for
RequestedPixel(reply) == reply.url[3]

\* C8: no tile URL is built and no network fetch is issued for a grid cell
\* whose pixel id is -1: every such tile has an empty url, and no request in
\* flight names the pixel -1.
C8_NoUrlNoFetchForSentinel ==
    /\ \A i \in SentinelTiles : m_tiles[i].url = <<>>
    /\ \A reply \in BagToSet(replies) : RequestedPixel(reply) # -1

\* C9: assembly starts only after every tile of the current grid has settled
\* and while no tile request is in flight.
C9_AssemblyIsBarrier ==
    assembling => (InFlight = 0 /\ settled = DOMAIN m_tiles)

\* C10: at most one tile network request is in flight at any time.
C10_OneRequestInFlight == InFlight <= 1


\* every tile of the current grid has settled and nothing is in flight
AllSettled == settled = DOMAIN m_tiles /\ InFlight = 0

\* C11: assembly never fails: once all tile fetches of the grid have settled,
\* the assembly step leaves a mosaic of the current grid together with its
\* count of filled cells, also when that count is 0.
C11_AssemblyAlwaysProduces ==
    (assembling /\ AllSettled) =>
        /\ m_fullMosaic # NullImage
        /\ m_fullMosaic.tilesUsed = Cardinality(SuccessfulTiles(m_tiles))

\* the assembly step that just ran has produced a mosaic
Assembled == assembling /\ SuccessfulTiles(m_tiles) # {}

-----------------------------------------------------------------------------
(* Properties of the coordinate centring (checked under SpecCentering) *)

\* calculateTargetPixelPosition has returned
Located == step \in {"located", "cropped"}

\* the creator's own crop: the 1536 x 1536 raw mosaic, after the target pixel
\* was calculated
CreatorCrop == step = "cropped" /\ rawMosaic = [width |-> 1536, height |-> 1536]

\* any call of cropMosaicToCenter has returned
Cropped == step \in {"cropped", "probed"}

\* the window of side size around t lies inside an axis of the given extent
WindowFits(t, size, extent) == t - size \div 2 >= 0 /\ t - size \div 2 + size <= extent

AxisInCrop(t, origin) ==
    IF t < 600 THEN origin = 0 /\ t - origin = t
    ELSE IF t > 936 THEN origin = 336 /\ t - origin = t - 336
    ELSE t - origin = 600

C14_CropWindowInBounds ==
    Cropped =>
        LET w == rawMosaic.width
            h == rawMosaic.height
            size == cropRect.size
        IN  /\ size = Min(1200, Min(w, h))
            /\ 0 <= cropRect.x /\ cropRect.x <= w - size
            /\ 0 <= cropRect.y /\ cropRect.y <= h - size
            /\ cropRect.x = Max(0, Min(targetPixel[1] - size \div 2, w - size))
            /\ cropRect.y = Max(0, Min(targetPixel[2] - size \div 2, h - size))
            /\ WindowFits(targetPixel[1], size, w) => cropRect.x = targetPixel[1] - size \div 2
            /\ WindowFits(targetPixel[2], size, h) => cropRect.y = targetPixel[2] - size \div 2

\* a window moved in from the left on one axis and from the far edge on the other
C14_Witness ==
    /\ Cropped
    /\ targetPixel[1] - cropRect.size \div 2 < 0
    /\ cropRect.x = 0
    /\ targetPixel[2] - cropRect.size \div 2 + cropRect.size > rawMosaic.height
    /\ cropRect.y = rawMosaic.height - cropRect.size


\* the tile-centre pixel of a tile: (gridX*512 + 256, gridY*512 + 256)
TileCenterPixel(tile) == <<tile.gridX * 512 + 256, tile.gridY * 512 + 256>>

\* C15: if the target equals the resolved centre of a grid cell c exactly,
\* calculateTargetPixelPosition returns c's tile-centre pixel, for every tile
\* list, also one in which several cells carry the same resolved centre.
C15_ExactCenterGivesTileCenter ==
    Located =>
        \A c \in DOMAIN skyTiles :
            skyTiles[c].skyCoordinates = skyTarget
                => targetPixel = TileCenterPixel(skyTiles[c])

\* the pixel offsets of the target from the chosen tile exceed 400 pixels on
\* an axis: 400 pixels are 644 arc seconds (at cos(dec) = 1/2, 1288 of RA)
BeyondSanityBound ==
    LET tile == skyTiles[containingTile]
    IN  \/ Abs(skyTarget.ra - tile.skyCoordinates.ra) * CosHalves(skyTarget.dec) > 2 * 644
        \/ Abs(skyTarget.dec - tile.skyCoordinates.dec) > 644

\* the tile-centre pixel of the chosen tile plus the rounded offset, clamped
ClampedTileTarget ==
    LET p == UnclampedTarget(skyTarget, skyTiles[containingTile])
    IN  <<Max(0, Min(p[1], 1535)), Max(0, Min(p[2], 1535))>>

\* C16: the geometric centre (768, 768) is returned whenever no containing
\* tile is found or the absolute pixel offset on either axis is strictly
\* greater than 400; in every other case the result is the containing tile's
\* centre pixel plus the rounded offset, clamped.
C16_SanityFallback ==
    Located =>
        IF containingTile = -1 \/ BeyondSanityBound
        THEN targetPixel = <<768, 768>>
        ELSE targetPixel = ClampedTileTarget

\* an offset of exactly 400 pixels is still used
C16_Witness ==
    /\ Located
    /\ containingTile # -1
    /\ skyTarget.ra - skyTiles[containingTile].skyCoordinates.ra = 644
    /\ CosHalves(skyTarget.dec) = 2
    /\ targetPixel[1] = skyTiles[containingTile].gridX * 512 + 256 + 400

\* C17: the returned position lies inside the 1536 x 1536 raw mosaic.
C17_TargetInsideMosaic ==
    Located =>
        /\ 0 <= targetPixel[1] /\ targetPixel[1] <= 1535
        /\ 0 <= targetPixel[2] /\ targetPixel[2] <= 1535

\* the unclamped position was right of the mosaic and the result is its edge
C17_Witness ==
    /\ Located
    /\ containingTile # -1
    /\ ~BeyondSanityBound
    /\ UnclampedTarget(skyTarget, skyTiles[containingTile])[1] > 1535
    /\ targetPixel[1] = 1535

\* C18: the containing tile is a tile of the grid whose angular distance to
\* the target is at most that of every other tile, and the first such tile
\* in list order.
C18_NearestTileFirstOnTies ==
    Located =>
        IF skyTiles = EmptyGrid THEN containingTile = -1
        ELSE /\ containingTile \in DOMAIN skyTiles
             /\ \A j \in DOMAIN skyTiles :
                   /\ calculateAngularDistance(skyTarget, skyTiles[containingTile].skyCoordinates)
                        <= calculateAngularDistance(skyTarget, skyTiles[j].skyCoordinates)
                   /\ j < containingTile
                        => calculateAngularDistance(skyTarget, skyTiles[j].skyCoordinates)
                             > calculateAngularDistance(skyTarget,
                                    skyTiles[containingTile].skyCoordinates)

\* several tiles are at the minimum distance and the first of them is chosen
C18_Witness ==
    /\ Located
    /\ containingTile = 0
    /\ \E j \in DOMAIN skyTiles :
          /\ j > 0
          /\ skyTiles[j].skyCoordinates = skyTiles[0].skyCoordinates

-----------------------------------------------------------------------------
(* Further properties of the mosaic creator (checked under SpecEnhanced) *)

\* C23: the custom create button is enabled only while the parsed target has
\* 0 <= RA < 360 and -90 <= Dec <= 90, so no mosaic is started for a sky
\* coordinate outside that range.
C23_CustomButtonOnlyInRange ==
    /\ createCustomButtonEnabled => InRange(m_customTarget)
    /\ InRange(m_actualTarget)

\* the reply was issued for another tile list than the current one: the tile
\* now at its index has a different url
IssuedForOtherList(reply) ==
    /\ reply.tileIndex \in DOMAIN m_tiles
    /\ reply.url # m_tiles[reply.tileIndex].url

\* C25: a late reply never touches a newer grid: when a reply issued for a
\* previous tile list finishes, it stores no image into the current list,
\* marks none of its tiles as downloaded and does not advance its tile index.
C25_LateReplyLeavesNewGrid ==
    [][\A reply \in BagToSet(replies) :
          (replies' = replies (-) SetToBag({reply}) /\ IssuedForOtherList(reply))
              => (m_tiles' = m_tiles /\ m_currentTileIndex' = m_currentTileIndex)]_vars

\* C26: a started mosaic creation runs to its end in order: the tile index
\* goes up by exactly one per settled tile, from 0 to the number of tiles,
\* where assembly is reached.
C26_IndexCountsSettledTiles ==
    /\ m_currentTileIndex = Cardinality(settled)
    /\ m_currentTileIndex <= Size(m_tiles)

-----------------------------------------------------------------------------
(* Properties of the url builders (checked under SpecUrl) *)

\* buildTileUrl has returned a url
UrlBuilt == urlCall.returned /\ urlCall.url # <<>>

\* C21: for every pixel id valid at an order of the registry (0..13,
\* 0 <= pixel < 12*4^order) the Dir bucket in the url is
\* floor(pixel / 10000) * 10000, a multiple of 10000 with
\* 0 <= pixel - dir <= 9999, unchanged by the 32-bit int that holds it; the
\* url is baseUrl/Norder{order}/Dir{dir}/Npix{pixel}.{format}.
C21_DirBucket ==
    (UrlBuilt /\ urlCall.order \in 0..13
        /\ 0 <= urlCall.pixel /\ urlCall.pixel < 12 * (4 ^ urlCall.order)) =>
        LET dir == urlCall.url[3]
        IN  /\ dir = (urlCall.pixel \div 10000) * 10000
            /\ dir % 10000 = 0
            /\ 0 <= urlCall.pixel - dir /\ urlCall.pixel - dir <= 9999
            /\ 0 <= dir /\ dir <= 2147483647
            /\ Len(urlCall.url) = 5
            /\ urlCall.url[2] = urlCall.order
            /\ urlCall.url[4] = urlCall.pixel
            /\ \E i \in 1..Len(m_surveys) :
                  /\ m_surveys[i].key = urlCall.surveyName
                  /\ urlCall.url[1] = m_surveys[i].baseUrl
                  /\ urlCall.url[5] = m_surveys[i].format

\* the last pixel of order 13, the largest pixel id of the registry
C21_Witness ==
    /\ UrlBuilt
    /\ urlCall.order = 13
    /\ urlCall.pixel = 805306367
    /\ urlCall.url[3] = 805300000

\* the keys of the survey registry
RegisteredNames ==
    {<<"DSS", "2", "Color">>, <<"2MASS", "Color">>, <<"2MASS", "J">>, <<"DSS", "2", "Red">>,
     <<"Gaia", "DR3">>, <<"SDSS", "DR12">>, <<"Mellinger", "Color">>,
     <<"Rubin", "Virgo", "Color">>}

\* C22: buildTileUrl returns the empty string exactly when the survey name is
\* not registered or the pixel of the position is the sentinel -1; for every
\* registered survey and non-negative pixel the url is non-empty and carries
\* that survey's base url and format.
C22_EmptyUrlExactlyOnFailure ==
    urlCall.returned =>
        /\ urlCall.url = <<>>
              <=> (urlCall.surveyName \notin RegisteredNames \/ urlCall.pixel = -1)
        /\ (urlCall.surveyName \in RegisteredNames /\ urlCall.pixel >= 0) =>
              /\ urlCall.url # <<>>
              /\ urlCall.url[1] = SurveyInfo(urlCall.surveyName).baseUrl
              /\ urlCall.url[5] = SurveyInfo(urlCall.surveyName).format

\* a survey of the generic branch got its url
C22_Witness ==
    /\ urlCall.returned
    /\ urlCall.surveyName = <<"Gaia", "DR3">>
    /\ urlCall.url # <<>>
    /\ urlCall.url[5] = "png"

-----------------------------------------------------------------------------
(* Properties of the survey test (checked under SpecTester) *)

\* the survey and position of the k-th test in survey-major order
ExpectedSurvey(k) == SurveyKeys[((k - 1) \div 8) + 1]
ExpectedPosition(k) == m_testPositions[((k - 1) % 8) + 1].name

\* testAllSurveys was called once, by the ProperHipsClient program
BatchRun == program = "ProperHipsClient" /\ mainPc # "main"

\* C29: after a single call of testAllSurveys every (survey, position) pair
\* is tested exactly once, survey by survey with the positions as the inner
\* loop, with at most one request in flight; one TileResult is appended per
\* pair (also when no url could be built), and testingComplete is emitted
\* exactly once, after all |surveys| * |positions| results are recorded.
C29_BatchTestsEveryPairOnce ==
    BatchRun =>
        /\ BagCardinality(testReplies) <= 1
        /\ Len(m_results) <= 8 * 8
        /\ \A k \in 1..Len(m_results) :
              /\ m_results[k].survey = ExpectedSurvey(k)
              /\ m_results[k].position = ExpectedPosition(k)
        /\ \A reply \in BagToSet(testReplies) :
              /\ reply.survey = ExpectedSurvey(Len(m_results) + 1)
              /\ reply.position = ExpectedPosition(Len(m_results) + 1)
        /\ completeEmitted <= 1
        /\ completeEmitted = 1 => (Len(m_results) = 8 * 8 /\ mainPc = "exited")
        /\ completeEmitted = 0 => BagCardinality(testReplies) + testTimers = 1

\* the test is complete with successes and failures among the 64 results
C29_Witness ==
    /\ BatchRun
    /\ completeEmitted = 1
    /\ Len(m_results) = 64
    /\ \E k \in 1..64 : m_results[k].success
    /\ \E k \in 1..64 : ~m_results[k].success

\* C30: a single call of testSurveyAtPosition is one download check: one
\* request, one TileResult when the reply finishes, and the batch test is
\* neither started nor advanced (no further request, the survey and position
\* indices unchanged).
C30_SingleTestStaysSingle ==
    (program = "SimpleHipsTest" /\ mainPc = "exec") =>
        /\ requestsIssued <= 1
        /\ Len(m_results) <= 1
        /\ m_currentSurveyIndex = 0
        /\ m_currentPositionIndex = 0
        /\ testTimers = 0

-----------------------------------------------------------------------------
(* Properties of the Messier mosaic creator (checked under SpecMessier) *)

\* C27: the grid dimensions used at assembly are those the tile list was
\* built with: when assembleFinalMosaic runs, the number of tiles is
\* m_gridWidth * m_gridHeight and every tile's rectangle
\* (gridX*512, gridY*512, 512, 512) lies inside the
\* m_gridWidth*512 x m_gridHeight*512 mosaic.
C27_AssemblyUsesBuildDimensions ==
    messierAssembling =>
        /\ Size(messierTiles) = m_gridWidth * m_gridHeight
        /\ \A i \in DOMAIN messierTiles :
              /\ messierTiles[i].gridX * 512 + 512 <= m_gridWidth * 512
              /\ messierTiles[i].gridY * 512 + 512 <= m_gridHeight * 512

====
